---- MODULE Spec2Model ----
(***************************************************************************)
(* Model of the local-callback OAuth subsystem of src-tauri/src/lib.rs:    *)
(* the process-wide pending-request store OAUTH_STATE, the command         *)
(* start_oauth_server with the single-shot worker thread it spawns, the    *)
(* token exchange exchange_code_for_tokens, and the command                *)
(* refresh_oauth_token.                                                    *)
(*                                                                         *)
(* Strings that are parsed are sequences of tokens: the separators "&",    *)
(* "=" and the prefix "/callback?" are tokens of their own, every other    *)
(* token is a run of characters without separators.  Option<T> is a        *)
(* sequence of length 0 (None) or 1 (Some).                                *)
(***************************************************************************)
EXTENDS Integers, Sequences, FiniteSets, TLC

\* ----------------------------------------------------------------- bounds
MaxCalls == 2        \* start_oauth_server invocations in one behaviour
MaxRefresh == 1      \* refresh_oauth_token invocations in one behaviour
MaxRefreshCalls == 1 \* start_oauth_server invocations beside the refreshes
MaxLockCalls == 2    \* start_oauth_server invocations with the lock spelled out
MaxQueryLen == 5     \* tokens of a query string given to the parser

\* ------------------------------------------------------------ Option<T>
None == << >>
Some(x) == << x >>

\* ------------------------------------------------------- input alphabets
\* loopback ports the host may ask for
Ports == { "17342", "17343" }

\* anti-CSRF state values the host may pass
States == { <<"S1">>, <<"S2">> }

\* client credentials the host may pass: a public PKCE client (empty
\* secret) and a confidential one
Clients ==
  { [code_verifier |-> "verifier1", client_id |-> "client1", client_secret |-> "",
     redirect_uri |-> "http://127.0.0.1/callback"],
    [code_verifier |-> "verifier2", client_id |-> "client2", client_secret |-> "sec",
     redirect_uri |-> "http://localhost/callback"] }

\* the credentials the host uses with a state value: it issues S1 for its
\* public client and S2 for its confidential one
ClientOf(state) ==
  CHOOSE cl \in Clients : (cl.client_secret = "") <=> (state = <<"S1">>)

\* struct OAuthState
OAuthState(state, cl) ==
  [ state         |-> state,
    code_verifier |-> cl.code_verifier,
    client_id     |-> cl.client_id,
    client_secret |-> cl.client_secret,
    redirect_uri  |-> cl.redirect_uri ]

\* query strings a browser may send after "/callback?"
Queries ==
  { << "code", "=", "c1", "&", "state", "=", "S1" >>,
    << "code", "=", "c1", "&", "state", "=", "S2" >>,
    << "error", "=", "access_denied", "&", "state", "=", "S1" >>,
    << "code", "=", "c1" >>,
    << "state", "=", "S1" >>,
    << "code", "=", "c1", "&", "error", "=", "access_denied", "&", "state", "=", "S2" >>,
    << "code", "&", "state", "=", "S1" >>,
    << "state", "=", "S1", "=", "x", "&", "code", "=" >> }

\* request paths
Paths ==
  { << "/callback?" >> \o q : q \in Queries } \cup
  { << "/favicon.ico" >>, << "/callback" >> }

\* what stream.read delivers: an error, or bytes whose first line splits on
\* whitespace into parts
ReadErr == [ readOk |-> FALSE, parts |-> << >> ]
HttpRequests ==
  { ReadErr,
    [ readOk |-> TRUE, parts |-> << >> ],
    [ readOk |-> TRUE, parts |-> << <<"GET">> >> ] } \cup
  { [ readOk |-> TRUE, parts |-> << <<"GET">>, p, <<"HTTP/1.1">> >> ] : p \in Paths }

\* the requests that reach every way through the worker
CoreRequests ==
  { ReadErr,
    [ readOk |-> TRUE, parts |-> << <<"GET">>, << "/favicon.ico" >>, <<"HTTP/1.1">> >> ] } \cup
  { [ readOk |-> TRUE, parts |-> << <<"GET">>, << "/callback?" >> \o q, <<"HTTP/1.1">> >> ] :
      q \in { << "code", "=", "c1", "&", "state", "=", "S1" >>,
              << "error", "=", "access_denied", "&", "state", "=", "S1" >>,
              << "state", "=", "S1" >> } }

\* answers of the token endpoint
BodyFull ==
  [ json |-> TRUE, access_token |-> "tok", expires_in |-> 3600,
    refresh_token |-> Some("rt"), token_type |-> "Bearer", raw |-> "json-full" ]
BodyNoRefresh ==
  [ json |-> TRUE, access_token |-> "tok2", expires_in |-> 1800,
    refresh_token |-> None, token_type |-> "Bearer", raw |-> "json-norefresh" ]
BodyGarbage ==
  [ json |-> FALSE, access_token |-> "", expires_in |-> 0,
    refresh_token |-> None, token_type |-> "", raw |-> "invalid_grant-body" ]

EndpointAnswers ==
  { [ sent |-> FALSE, status |-> 0,   body |-> BodyGarbage ],
    [ sent |-> TRUE,  status |-> 200, body |-> BodyFull ],
    [ sent |-> TRUE,  status |-> 200, body |-> BodyNoRefresh ],
    [ sent |-> TRUE,  status |-> 200, body |-> BodyGarbage ],
    [ sent |-> TRUE,  status |-> 400, body |-> BodyGarbage ],
    [ sent |-> TRUE,  status |-> 400, body |-> BodyFull ] }

\* a success and a refusal
CoreAnswers ==
  { [ sent |-> TRUE,  status |-> 200, body |-> BodyFull ],
    [ sent |-> TRUE,  status |-> 400, body |-> BodyGarbage ] }

\* ------------------------------------------------- request parsing (pure)
\* position of the first occurrence of tok in s, 0 when there is none
RECURSIVE IndexOf(_, _, _)
IndexOf(s, tok, i) ==
  IF i > Len(s) THEN 0
  ELSE IF s[i] = tok THEN i
  ELSE IndexOf(s, tok, i + 1)

\* str::split(sep): the pieces between separators, empty pieces included
RECURSIVE Split(_, _)
Split(s, sep) ==
  LET k == IndexOf(s, sep, 1) IN
    IF k = 0 THEN << s >>
    ELSE << SubSeq(s, 1, k - 1) >> \o Split(SubSeq(s, k + 1, Len(s)), sep)

\* the closure of filter_map: p.splitn(2, '=') must yield two pieces
\* (faulty variant: an entry without '=' is a parameter with an empty value)
ParsePairKeyOnly(p) ==
  LET k == IndexOf(p, "=", 1) IN
    IF k = 0 THEN Some(<< p, << >> >>)
    ELSE Some(<< SubSeq(p, 1, k - 1), SubSeq(p, k + 1, Len(p)) >>)

ParsePair(p) ==
  LET k == IndexOf(p, "=", 1) IN
    IF k = 0 THEN None
    ELSE Some(<< SubSeq(p, 1, k - 1), SubSeq(p, k + 1, Len(p)) >>)

\* filter_map over the pieces, in order
RECURSIVE FilterPairs(_)
FilterPairs(pieces) ==
  IF pieces = << >> THEN << >>
  ELSE ParsePair(Head(pieces)) \o FilterPairs(Tail(pieces))

\* query.split('&').filter_map(..): the pairs collected into the HashMap
ParseQuery(query) == FilterPairs(Split(query, "&"))

\* HashMap::get after collect(): a later pair replaces an earlier one with
\* the same key
RECURSIVE Get(_, _)
Get(params, key) ==
  IF params = << >> THEN None
  ELSE LET last == params[Len(params)] IN
         IF last[1] = << key >> THEN Some(last[2])
         ELSE Get(SubSeq(params, 1, Len(params) - 1), key)

\* path.starts_with("/callback?")
IsCallbackPath(path) == Len(path) >= 1 /\ path[1] = "/callback?"

\* what the worker makes of the bytes it read, up to the prefix test:
\*   "drop"     nothing is answered (read error, no request line, < 2 parts)
\*   "invalid"  a path that is no callback
\*   "callback" a callback, with its parsed parameters
ParseRequest(req) ==
  IF ~ req.readOk \/ Len(req.parts) < 2
    THEN [ kind |-> "drop", params |-> << >> ]
  ELSE IF ~ IsCallbackPath(req.parts[2])
    THEN [ kind |-> "invalid", params |-> << >> ]
  ELSE [ kind |-> "callback", params |-> ParseQuery(Tail(req.parts[2])) ]

\* ------------------------------------------------ callback decision (pure)
\* the if/else chain of the worker once it holds the snapshot of the store
\* (faulty variant: the code is looked at before the state is compared)
BranchCodeBeforeState(stored, params) ==
  IF stored = None THEN "nopending"
  ELSE IF Get(params, "code") # None THEN "code"
  ELSE IF Get(params, "state") # Some(stored[1].state) THEN "mismatch"
  ELSE IF Get(params, "error") # None THEN "error"
  ELSE "nothing"

Branch(stored, params) ==
  IF stored = None THEN "nopending"
  ELSE IF Get(params, "state") # Some(stored[1].state) THEN "mismatch"
  ELSE IF Get(params, "code") # None THEN "code"
  ELSE IF Get(params, "error") # None THEN "error"
  ELSE "nothing"

\* --------------------------------------------------- token endpoint (pure)
\* reqwest StatusCode::is_success
IsSuccess(status) == status >= 200 /\ status < 300

\* Display of a StatusCode
StatusText(status) ==
  IF status = 200 THEN "200 OK"
  ELSE IF status = 400 THEN "400 Bad Request"
  ELSE "other status"

\* the form of exchange_code_for_tokens
\* (faulty variant: client_secret is sent even when empty)
ExchangeFormAlwaysSecret(code, code_verifier, client_id, client_secret, redirect_uri) ==
  << << "code", code >>,
     << "client_id", client_id >>,
     << "code_verifier", code_verifier >>,
     << "redirect_uri", redirect_uri >>,
     << "grant_type", "authorization_code" >>,
     << "client_secret", client_secret >> >>

ExchangeForm(code, code_verifier, client_id, client_secret, redirect_uri) ==
  << << "code", code >>,
     << "client_id", client_id >>,
     << "code_verifier", code_verifier >>,
     << "redirect_uri", redirect_uri >>,
     << "grant_type", "authorization_code" >> >>
  \o (IF client_secret # "" THEN << << "client_secret", client_secret >> >> ELSE << >>)

\* the form of refresh_oauth_token
\* (faulty variant: client_secret is sent even when empty)
RefreshFormAlwaysSecret(refresh_token, client_id, client_secret) ==
  << << "refresh_token", refresh_token >>,
     << "client_id", client_id >>,
     << "grant_type", "refresh_token" >>,
     << "client_secret", client_secret >> >>

RefreshForm(refresh_token, client_id, client_secret) ==
  << << "refresh_token", refresh_token >>,
     << "client_id", client_id >>,
     << "grant_type", "refresh_token" >> >>
  \o (IF client_secret # "" THEN << << "client_secret", client_secret >> >> ELSE << >>)

\* Result<TokenResponse, String>
Ok(tokens) == [ ok |-> TRUE, tokens |-> Some(tokens), err |-> << >> ]
Err(msg) == [ ok |-> FALSE, tokens |-> None, err |-> msg ]

\* struct TokenResponse, deserialized from a body
TokenResponse(body) ==
  [ access_token  |-> body.access_token,
    expires_in    |-> body.expires_in,
    refresh_token |-> body.refresh_token,
    token_type    |-> body.token_type ]

\* the result of exchange_code_for_tokens for an answer of the endpoint
\* (faulty variant: the response body is put into the error)
ExchangeResultWithBody(answer) ==
  IF ~ answer.sent THEN Err(<< "Request failed: ", "transport error" >>)
  ELSE IF ~ IsSuccess(answer.status)
    THEN Err(<< "Token exchange failed: ", StatusText(answer.status), answer.body.raw >>)
  ELSE IF ~ answer.body.json
    THEN Err(<< "Failed to parse token response: ", "decode error" >>)
  ELSE Ok(TokenResponse(answer.body))

ExchangeResult(answer) ==
  IF ~ answer.sent THEN Err(<< "Request failed: ", "transport error" >>)
  ELSE IF ~ IsSuccess(answer.status)
    THEN Err(<< "Token exchange failed: ", StatusText(answer.status) >>)
  ELSE IF ~ answer.body.json
    THEN Err(<< "Failed to parse token response: ", "decode error" >>)
  ELSE Ok(TokenResponse(answer.body))

\* struct RefreshResponse
RefreshResponse(tokens) ==
  [ access_token |-> tokens.access_token, expires_in |-> tokens.expires_in ]

\* the result of refresh_oauth_token for an answer of the endpoint
RefreshResult(answer) ==
  IF ~ answer.sent THEN [ ok |-> FALSE, value |-> None, err |-> << "Request failed: ", "transport error" >> ]
  ELSE IF ~ IsSuccess(answer.status)
    THEN [ ok |-> FALSE, value |-> None, err |-> << "Token refresh failed: ", StatusText(answer.status) >> ]
  ELSE IF ~ answer.body.json
    THEN [ ok |-> FALSE, value |-> None, err |-> << "Failed to parse token response: ", "decode error" >> ]
  ELSE [ ok |-> TRUE, value |-> Some(RefreshResponse(TokenResponse(answer.body))), err |-> << >> ]

\* ------------------------------------------- notifications and pages (pure)
\* struct TokenPayload
\* (faulty variant: the refresh token is not passed on)
TokenPayloadNoRefresh(tokens) ==
  [ access_token  |-> tokens.access_token,
    expires_in    |-> tokens.expires_in,
    refresh_token |-> None ]

TokenPayload(tokens) ==
  [ access_token  |-> tokens.access_token,
    expires_in    |-> tokens.expires_in,
    refresh_token |-> tokens.refresh_token ]

\* app.emit("oauth-token", payload) and app.emit("oauth-error", message)
OAuthToken(payload) == [ event |-> "oauth-token", message |-> << >>, payload |-> Some(payload) ]
OAuthError(msg) == [ event |-> "oauth-error", message |-> msg, payload |-> None ]

\* send_success_response and send_error_response
SuccessPage == [ status |-> "200 OK", error |-> << >> ]
ErrorPage(msg) == [ status |-> "400 Bad Request", error |-> msg ]

\* ------------------------------------------------------------------ state
VARIABLES
  store,      \* OAUTH_STATE: Option<OAuthState> behind the mutex
  calls,      \* the start_oauth_server invocations, in the order of their store
  workers,    \* workers[i]: the thread spawned by invocation i
  refreshes,  \* the refresh_oauth_token invocations
  settled,    \* history: a worker that read a request line has ended, and
              \* no start_oauth_server has taken a step since
  lock,       \* the thread that holds the guard of the store's mutex, if any
  parse       \* the query parser on its own: input, parameters, verdict

vars == << store, calls, workers, refreshes, settled, lock, parse >>

\* threads that take the mutex
CallThread(c) == << "call", c >>
WorkerThread(w) == << "worker", w >>

\* the parser before it is given a query
NoParse == [ pc |-> "idle", query |-> << >>, params |-> << >>, branch |-> "" ]

\* the worker slot of an invocation that has not spawned its thread
NoWorker(port) ==
  [ pc      |-> "none",     \* none, accept, read, snapshot, exchange, await,
                            \* emit, respond, clear, done
    port    |-> port,       \* the port its listener holds until the thread ends
    params  |-> << >>,      \* the parsed query
    stored  |-> None,       \* stored_state, the snapshot of the store
    branch  |-> "",         \* the way it took: drop, invalid, nopending,
                            \* mismatch, code, error, nothing
    answer  |-> None,       \* history: the endpoint's answer to its exchange
    result  |-> None,       \* what exchange_code_for_tokens returned
    exch    |-> << >>,      \* forms it posted to the token endpoint
    notes   |-> << >>,      \* notifications it emitted
    pages   |-> << >>,      \* HTTP responses it wrote to the browser
    clears  |-> 0 ]         \* times it set the store to None

Init ==
  /\ store = None
  /\ calls = << >>
  /\ workers = << >>
  /\ refreshes = << >>
  /\ settled = FALSE
  /\ lock = None
  /\ parse = NoParse

\* ports held by a listener that has not been dropped
\* (faulty variant: a listener nobody has connected to does not hold its port)
BoundPortsConnected ==
  { workers[i].port :
      i \in { j \in DOMAIN workers : workers[j].pc \notin { "none", "accept", "done" } } }

BoundPorts ==
  { workers[i].port : i \in { j \in DOMAIN workers : workers[j].pc \notin { "none", "done" } } }

\* ------------------------------------------------- start_oauth_server
\* the invocation up to the end of the block that stores the request
\* (faulty variant: a request already pending is kept, not overwritten)
StartFlowSetKeepFirst(state, port, cl) ==
  /\ store' = IF store = None THEN Some(OAuthState(state, cl)) ELSE store
  /\ calls' = Append(calls, [ state |-> state, port |-> port, pc |-> "bind", result |-> "none" ])
  /\ workers' = Append(workers, NoWorker(port))
  /\ settled' = FALSE
  /\ UNCHANGED refreshes

StartFlowSet(state, port, cl) ==
  /\ store' = Some(OAuthState(state, cl))
  /\ calls' = Append(calls, [ state |-> state, port |-> port, pc |-> "bind", result |-> "none" ])
  /\ workers' = Append(workers, NoWorker(port))
  /\ settled' = FALSE
  /\ UNCHANGED refreshes

\* the thread an invocation leaves behind: spawned only after a bind that
\* succeeded ("?" returns the error before thread::spawn)
\* (faulty variant: the thread is spawned whatever bind returned)
SpawnAlways(bound) == "accept"

Spawn(bound) == IF bound THEN "accept" ELSE "none"

\* TcpListener::bind, thread::spawn and the return of the command;
\* available: whether the operating system grants the port when no listener
\* of this process holds it
\* (faulty variant: a bind that fails takes the request back out of the store)
StartFlowBindRollback(c, available) ==
  /\ c \in DOMAIN calls
  /\ calls[c].pc = "bind"
  /\ LET bound == available /\ calls[c].port \notin BoundPorts IN
       /\ calls' = [ calls EXCEPT ![c].pc = "returned",
                                  ![c].result = IF bound THEN "ok" ELSE "bindError" ]
       /\ workers' = [ workers EXCEPT ![c].pc = Spawn(bound) ]
       /\ store' = IF bound THEN store ELSE None
  /\ settled' = FALSE
  /\ UNCHANGED refreshes

StartFlowBind(c, available) ==
  /\ c \in DOMAIN calls
  /\ calls[c].pc = "bind"
  /\ LET bound == available /\ calls[c].port \notin BoundPorts IN
       /\ calls' = [ calls EXCEPT ![c].pc = "returned",
                                  ![c].result = IF bound THEN "ok" ELSE "bindError" ]
       /\ workers' = [ workers EXCEPT ![c].pc = Spawn(bound) ]
  /\ settled' = FALSE
  /\ UNCHANGED << store, refreshes >>

\* ------------------------------------------------------- the worker thread
\* listener.accept(): a connection, or an error that skips the handling
Accept(w, ok) ==
  /\ w \in DOMAIN workers
  /\ workers[w].pc = "accept"
  /\ workers' = [ workers EXCEPT ![w].pc = IF ok THEN "read" ELSE "clear" ]
  /\ UNCHANGED << store, calls, refreshes, settled >>

\* stream.read and the parsing of the request line, path and query
Read(w, req) ==
  /\ w \in DOMAIN workers
  /\ workers[w].pc = "read"
  /\ LET parsed == ParseRequest(req) IN
       workers' = [ workers EXCEPT
         ![w].params = parsed.params,
         ![w].branch = IF parsed.kind = "callback" THEN "" ELSE parsed.kind,
         ![w].pc = CASE parsed.kind = "drop" -> "clear"
                     [] parsed.kind = "invalid" -> "respond"
                     [] OTHER -> "snapshot" ]
  /\ UNCHANGED << store, calls, refreshes, settled >>

\* where the if/else chain leads
\* (faulty variant: the provider's error is not reported to the host)
AfterBranchSilentError(branch) ==
  CASE branch = "code" -> "exchange"
    [] branch \in { "nothing", "error" } -> "clear"
    [] OTHER -> "emit"

\* (faulty variant: the page is written without the host being notified)
AfterBranchPageFirst(branch) ==
  CASE branch = "code" -> "exchange"
    [] branch = "nothing" -> "clear"
    [] OTHER -> "respond"

AfterBranch(branch) ==
  CASE branch = "code" -> "exchange"
    [] branch = "nothing" -> "clear"
    [] OTHER -> "emit"

\* stored_state = lock().ok().and_then(|g| g.clone()), and the tests on it
\* (faulty variant: the worker uses the request of the invocation that
\* spawned it)
SnapshotOwn(w) ==
  /\ w \in DOMAIN workers
  /\ workers[w].pc = "snapshot"
  /\ LET own == Some(OAuthState(calls[w].state, ClientOf(calls[w].state)))
         branch == Branch(own, workers[w].params) IN
       workers' = [ workers EXCEPT
         ![w].stored = own,
         ![w].branch = branch,
         ![w].pc = AfterBranch(branch) ]
  /\ UNCHANGED << store, calls, refreshes, settled >>

Snapshot(w) ==
  /\ w \in DOMAIN workers
  /\ workers[w].pc = "snapshot"
  /\ LET branch == Branch(store, workers[w].params) IN
       workers' = [ workers EXCEPT
         ![w].stored = store,
         ![w].branch = branch,
         ![w].pc = AfterBranch(branch) ]
  /\ UNCHANGED << store, calls, refreshes, settled >>

\* exchange_code_for_tokens, up to the request being posted
ExchangeSend(w) ==
  /\ w \in DOMAIN workers
  /\ workers[w].pc = "exchange"
  /\ LET oauth == workers[w].stored[1]
         code == Get(workers[w].params, "code")[1] IN
       workers' = [ workers EXCEPT
         ![w].exch = Append(@, ExchangeForm(code, oauth.code_verifier, oauth.client_id,
                                            oauth.client_secret, oauth.redirect_uri)),
         ![w].pc = "await" ]
  /\ UNCHANGED << store, calls, refreshes, settled >>

\* exchange_code_for_tokens, from the endpoint's answer to its return
ExchangeReturn(w, answer) ==
  /\ w \in DOMAIN workers
  /\ workers[w].pc = "await"
  /\ workers' = [ workers EXCEPT
       ![w].answer = Some(answer),
       ![w].result = Some(ExchangeResult(answer)),
       ![w].pc = "emit" ]
  /\ UNCHANGED << store, calls, refreshes, settled >>

\* the notification a worker emits on its branch
Notification(wk) ==
  CASE wk.branch = "nopending" -> OAuthError(<< "No pending OAuth request" >>)
    [] wk.branch = "mismatch" -> OAuthError(<< "State mismatch" >>)
    [] wk.branch = "error" -> OAuthError(Get(wk.params, "error")[1])
    [] wk.branch = "code" ->
         IF wk.result[1].ok THEN OAuthToken(TokenPayload(wk.result[1].tokens[1]))
         ELSE OAuthError(wk.result[1].err)

\* the page a worker writes on its branch
\* (faulty variant: the success page is written whatever the exchange returned)
PageSuccessOnRefusal(wk) ==
  CASE wk.branch = "invalid" -> ErrorPage(<< "Invalid request" >>)
    [] wk.branch = "nopending" -> ErrorPage(<< "No pending OAuth request" >>)
    [] wk.branch = "mismatch" -> ErrorPage(<< "State mismatch" >>)
    [] wk.branch = "error" -> ErrorPage(Get(wk.params, "error")[1])
    [] wk.branch = "code" -> SuccessPage

Page(wk) ==
  CASE wk.branch = "invalid" -> ErrorPage(<< "Invalid request" >>)
    [] wk.branch = "nopending" -> ErrorPage(<< "No pending OAuth request" >>)
    [] wk.branch = "mismatch" -> ErrorPage(<< "State mismatch" >>)
    [] wk.branch = "error" -> ErrorPage(Get(wk.params, "error")[1])
    [] wk.branch = "code" ->
         IF wk.result[1].ok THEN SuccessPage ELSE ErrorPage(wk.result[1].err)

\* app_clone.emit(..)
Emit(w) ==
  /\ w \in DOMAIN workers
  /\ workers[w].pc = "emit"
  /\ workers' = [ workers EXCEPT
       ![w].notes = Append(@, Notification(workers[w])),
       ![w].pc = "respond" ]
  /\ UNCHANGED << store, calls, refreshes, settled >>

\* where the thread goes after the page: the mismatch branch returns from
\* the closure, every other branch falls through to the clearing block
\* (faulty variant: the request that is no callback returns as well)
AfterPageInvalidReturns(branch) ==
  IF branch \in { "mismatch", "invalid" } THEN "done" ELSE "clear"

AfterPage(branch) == IF branch = "mismatch" THEN "done" ELSE "clear"

\* send_success_response / send_error_response
Respond(w) ==
  /\ w \in DOMAIN workers
  /\ workers[w].pc = "respond"
  /\ workers' = [ workers EXCEPT
       ![w].pages = Append(@, Page(workers[w])),
       ![w].pc = AfterPage(workers[w].branch) ]
  /\ settled' = (settled \/ AfterPage(workers[w].branch) = "done")
  /\ UNCHANGED << store, calls, refreshes >>

\* the block "Clear OAuth state after handling" and the end of the thread
Clear(w) ==
  /\ w \in DOMAIN workers
  /\ workers[w].pc = "clear"
  /\ store' = None
  /\ workers' = [ workers EXCEPT ![w].clears = @ + 1, ![w].pc = "done" ]
  /\ settled' = (settled \/ workers[w].branch \notin { "", "drop" })
  /\ UNCHANGED << calls, refreshes >>

\* ------------------------------------------------- refresh_oauth_token
RefreshTokens == { "rt" }

\* the invocation up to the request being posted
RefreshSend(refresh_token, cl) ==
  /\ refreshes' = Append(refreshes,
       [ pc            |-> "await",
         client_secret |-> cl.client_secret,
         form          |-> RefreshForm(refresh_token, cl.client_id, cl.client_secret),
         answer        |-> None,
         result        |-> None ])
  /\ UNCHANGED << store, calls, workers, settled >>

\* from the endpoint's answer to the return of the command
\* (faulty variant: the command clears the store, as the worker does)
RefreshReturnClearing(r, answer) ==
  /\ r \in DOMAIN refreshes
  /\ refreshes[r].pc = "await"
  /\ refreshes' = [ refreshes EXCEPT
       ![r].pc = "returned",
       ![r].answer = Some(answer),
       ![r].result = Some(RefreshResult(answer)) ]
  /\ store' = None
  /\ UNCHANGED << calls, workers, settled >>

RefreshReturn(r, answer) ==
  /\ r \in DOMAIN refreshes
  /\ refreshes[r].pc = "await"
  /\ refreshes' = [ refreshes EXCEPT
       ![r].pc = "returned",
       ![r].answer = Some(answer),
       ![r].result = Some(RefreshResult(answer)) ]
  /\ UNCHANGED << store, calls, workers, settled >>

\* --------------------------------------------------------- specifications
\* the steps of start_oauth_server and of its workers, for at most maxCalls
\* invocations on the given ports, with the browser sending one of requests
\* and the token endpoint answering with one of answers
FlowNext(maxCalls, ports, requests, answers) ==
  \/ /\ Len(calls) < maxCalls
     /\ \E state \in States, port \in ports : StartFlowSet(state, port, ClientOf(state))
  \/ \E c \in DOMAIN calls, available \in BOOLEAN : StartFlowBind(c, available)
  \/ \E w \in DOMAIN workers, ok \in BOOLEAN : Accept(w, ok)
  \/ \E w \in DOMAIN workers, req \in requests : Read(w, req)
  \/ \E w \in DOMAIN workers : Snapshot(w)
  \/ \E w \in DOMAIN workers : ExchangeSend(w)
  \/ \E w \in DOMAIN workers, answer \in answers : ExchangeReturn(w, answer)
  \/ \E w \in DOMAIN workers : Emit(w)
  \/ \E w \in DOMAIN workers : Respond(w)
  \/ \E w \in DOMAIN workers : Clear(w)

\* the host uses one redirect port; every request and every answer
\* (each critical section of the store is one step here; SpecLock spells
\* the mutex out)
Next ==
  /\ FlowNext(MaxCalls, { "17342" }, HttpRequests, EndpointAnswers)
  /\ UNCHANGED << lock, parse >>

Spec == Init /\ [][Next]_vars

\* the host uses two redirect ports, so that two workers live side by side
RaceNext ==
  /\ FlowNext(MaxCalls, Ports, CoreRequests, CoreAnswers)
  /\ UNCHANGED << lock, parse >>

SpecRace == Init /\ [][RaceNext]_vars

\* refresh_oauth_token invoked while flows are under way
RefreshNext ==
  /\ \/ FlowNext(MaxRefreshCalls, { "17342" }, HttpRequests, CoreAnswers)
     \/ /\ Len(refreshes) < MaxRefresh
        /\ \E rt \in RefreshTokens, cl \in Clients : RefreshSend(rt, cl)
     \/ \E r \in DOMAIN refreshes, answer \in EndpointAnswers : RefreshReturn(r, answer)
  /\ UNCHANGED << lock, parse >>

SpecRefresh == Init /\ [][RefreshNext]_vars

\* ------------------------------------------------- the mutex spelled out
\* Mutex::lock: the thread blocks until no guard is alive
Lock(thread) ==
  /\ lock = None
  /\ lock' = Some(thread)
  /\ UNCHANGED << store, calls, workers, refreshes, settled, parse >>

\* the guard at the end of the block that stores the request: dropped
GuardAfterSet(c) == None

\* the guard after stored_state is computed: a temporary of the closure
\* passed to and_then, dropped with it
\* (faulty variant: the guard is bound in the block of the handling and
\* lives until the handling ends)
GuardKeptAfterSnapshot(w) == Some(WorkerThread(w))

GuardAfterSnapshot(w) == None

\* the guard at the end of the if-let that clears: dropped
GuardAfterClear(w) == None

\* start_oauth_server: lock, then the block that stores
LockSet == Len(calls) < MaxLockCalls /\ Lock(CallThread(Len(calls) + 1))

LockedSet(state, port, cl) ==
  /\ lock = Some(CallThread(Len(calls) + 1))
  /\ StartFlowSet(state, port, cl)
  /\ lock' = GuardAfterSet(Len(calls) + 1)
  /\ UNCHANGED parse

\* the worker: lock, then the snapshot
LockSnapshot(w) ==
  /\ w \in DOMAIN workers
  /\ workers[w].pc = "snapshot"
  /\ Lock(WorkerThread(w))

LockedSnapshot(w) ==
  /\ lock = Some(WorkerThread(w))
  /\ Snapshot(w)
  /\ lock' = GuardAfterSnapshot(w)
  /\ UNCHANGED parse

\* the worker: lock, then the clearing
LockClear(w) ==
  /\ w \in DOMAIN workers
  /\ workers[w].pc = "clear"
  /\ Lock(WorkerThread(w))

LockedClear(w) ==
  /\ lock = Some(WorkerThread(w))
  /\ Clear(w)
  /\ lock' = GuardAfterClear(w)
  /\ UNCHANGED parse

\* requests and answers that lead a worker through the exchange, past the
\* handling and to an early end
LockRequests ==
  { ReadErr,
    [ readOk |-> TRUE, parts |-> << <<"GET">>, << "/favicon.ico" >>, <<"HTTP/1.1">> >> ],
    [ readOk |-> TRUE,
      parts |-> << <<"GET">>,
                   << "/callback?", "code", "=", "c1", "&", "state", "=", "S1" >>,
                   <<"HTTP/1.1">> >> ] }

\* the steps of Spec that touch no store run whoever holds the mutex
LockNext ==
  \/ LockSet
  \/ \E state \in States, port \in Ports : LockedSet(state, port, ClientOf(state))
  \/ \E c \in DOMAIN calls, available \in BOOLEAN :
       StartFlowBind(c, available) /\ UNCHANGED << lock, parse >>
  \/ \E w \in DOMAIN workers, ok \in BOOLEAN :
       Accept(w, ok) /\ UNCHANGED << lock, parse >>
  \/ \E w \in DOMAIN workers, req \in LockRequests :
       Read(w, req) /\ UNCHANGED << lock, parse >>
  \/ \E w \in DOMAIN workers : LockSnapshot(w)
  \/ \E w \in DOMAIN workers : LockedSnapshot(w)
  \/ \E w \in DOMAIN workers : ExchangeSend(w) /\ UNCHANGED << lock, parse >>
  \/ \E w \in DOMAIN workers, answer \in CoreAnswers :
       ExchangeReturn(w, answer) /\ UNCHANGED << lock, parse >>
  \/ \E w \in DOMAIN workers : Emit(w) /\ UNCHANGED << lock, parse >>
  \/ \E w \in DOMAIN workers : Respond(w) /\ UNCHANGED << lock, parse >>
  \/ \E w \in DOMAIN workers : LockClear(w)
  \/ \E w \in DOMAIN workers : LockedClear(w)

SpecLock == Init /\ [][LockNext]_vars

\* ------------------------------------------------- the parser on its own
\* pieces of a query string: parameter names, separators, a state value
\* and the same value with one character percent-encoded
QueryTokens == { "code", "state", "=", "&", "S1", "S%31" }

QueryInputs == UNION { [ 1..n -> QueryTokens ] : n \in 0..MaxQueryLen }

\* the request the query is validated against
PendingS1 == Some(OAuthState(<< "S1" >>, ClientOf(<< "S1" >>)))

InitParse ==
  /\ store = PendingS1
  /\ calls = << >>
  /\ workers = << >>
  /\ refreshes = << >>
  /\ settled = FALSE
  /\ lock = None
  /\ parse \in { [ pc |-> "query", query |-> q, params |-> << >>, branch |-> "" ] :
                  q \in QueryInputs }

\* the query is split and collected into params
ParseCallbackQuery ==
  /\ parse.pc = "query"
  /\ parse' = [ parse EXCEPT !.pc = "params", !.params = ParseQuery(parse.query) ]
  /\ UNCHANGED << store, calls, workers, refreshes, settled, lock >>

\* the tests on params.get("state") and params.get("code")
CompareState ==
  /\ parse.pc = "params"
  /\ parse' = [ parse EXCEPT !.pc = "done", !.branch = Branch(store, parse.params) ]
  /\ UNCHANGED << store, calls, workers, refreshes, settled, lock >>

ParseNext ==
  \/ ParseCallbackQuery
  \/ CompareState

SpecParse == InitParse /\ [][ParseNext]_vars

\* ------------------------------------------------------------ properties
StateMismatchNote == OAuthError(<< "State mismatch" >>)
NoPendingNote == OAuthError(<< "No pending OAuth request" >>)

\* the worker has passed its call of emit
HasEmitted(wk) == wk.pc \in { "respond", "clear", "done" }

\* the worker's accept returned a connection
Accepted(wk) == wk.branch # "" \/ wk.pc \in { "read", "snapshot" }

\* the worker holds a snapshot of a stored request whose state is not the
\* state parameter of its callback (an absent parameter included)
Mismatching(wk) ==
  /\ wk.stored # None
  /\ Get(wk.params, "state") # Some(wk.stored[1].state)

\* C1: a worker whose callback's state parameter differs from the expected
\* state of the request it found stored (or is absent) posts nothing to the
\* token endpoint and emits exactly one notification, oauth-error "State
\* mismatch", whatever code or error parameters the query carries.
C1_StateMismatchNoExchange ==
  \A w \in DOMAIN workers :
    Mismatching(workers[w]) =>
      /\ workers[w].exch = << >>
      /\ workers[w].pc \in { "emit", "respond", "done" }
      /\ workers[w].notes =
           IF workers[w].pc = "emit" THEN << >> ELSE << StateMismatchNote >>

C1_Witness ==
  \E w \in DOMAIN workers :
    /\ Mismatching(workers[w])
    /\ Get(workers[w].params, "state") # None
    /\ Get(workers[w].params, "code") # None
    /\ workers[w].pc = "done"
    /\ workers[w].notes = << StateMismatchNote >>

\* the worker's callback matches the stored request, carries a code, and
\* the exchange has succeeded
ExchangeSucceeded(wk) ==
  /\ wk.stored # None
  /\ Get(wk.params, "state") = Some(wk.stored[1].state)
  /\ Get(wk.params, "code") # None
  /\ wk.result # None
  /\ wk.result[1].ok

\* C2: after a successful exchange for a matching callback with a code the
\* worker emits exactly one oauth-token notification whose access token,
\* expiry and optional refresh token are those of the exchange response
\* (refresh token None when the response has none), emits no oauth-error,
\* and the step in which it ends leaves the store empty.
C2_SuccessEmitsTokenAndClears ==
  /\ [] (\A w \in DOMAIN workers :
           ExchangeSucceeded(workers[w]) =>
             LET body == workers[w].answer[1].body IN
               /\ Len(workers[w].notes) <= 1
               /\ HasEmitted(workers[w]) =>
                    /\ Len(workers[w].notes) = 1
                    /\ workers[w].notes[1].event = "oauth-token"
                    /\ workers[w].notes[1].payload[1].access_token = body.access_token
                    /\ workers[w].notes[1].payload[1].expires_in = body.expires_in
                    /\ workers[w].notes[1].payload[1].refresh_token = body.refresh_token
               /\ ~ HasEmitted(workers[w]) => workers[w].notes = << >>)
  /\ [][ \A w \in DOMAIN workers :
           ( /\ ExchangeSucceeded(workers[w])
             /\ workers[w].pc # "done"
             /\ workers'[w].pc = "done" ) => store' = None ]_vars

C2_Witness ==
  \E w \in DOMAIN workers :
    /\ ExchangeSucceeded(workers[w])
    /\ workers[w].pc = "done"
    /\ workers[w].answer[1].body.refresh_token = None
    /\ workers[w].notes[1].payload[1].refresh_token = None
    /\ store = None

\* the state value q was stored by an earlier invocation and the latest
\* invocation stored a different one
Overwritten(q) ==
  /\ Len(calls) >= 2
  /\ calls[Len(calls)].state # q
  /\ \E i \in 1 .. (Len(calls) - 1) : calls[i].state = q

\* C3: a worker that looks into the store when the state of its callback
\* has been overwritten by a later invocation with another state takes the
\* "No pending OAuth request" or the "State mismatch" way; on these ways it
\* posts nothing to the token endpoint and emits that one oauth-error, never
\* an oauth-token.
C3_OverwrittenStateFails ==
  /\ [][ \A w \in DOMAIN workers :
           ( /\ workers[w].pc = "snapshot"
             /\ workers'[w].pc # "snapshot"
             /\ Get(workers[w].params, "state") # None
             /\ Overwritten(Get(workers[w].params, "state")[1]) )
           => workers'[w].branch \in { "nopending", "mismatch" } ]_vars
  /\ [] (\A w \in DOMAIN workers :
           workers[w].branch \in { "nopending", "mismatch" } =>
             /\ workers[w].exch = << >>
             /\ workers[w].result = None
             /\ workers[w].notes =
                  IF HasEmitted(workers[w])
                    THEN << IF workers[w].branch = "mismatch"
                              THEN StateMismatchNote ELSE NoPendingNote >>
                    ELSE << >>)

C3_Witness ==
  /\ Len(calls) = 2
  /\ calls[1].state # calls[2].state
  /\ calls[1].port # calls[2].port
  /\ \E w \in DOMAIN workers :
       /\ workers[w].pc = "done"
       /\ Get(workers[w].params, "state") = Some(calls[1].state)
       /\ Get(workers[w].params, "code") # None
       /\ workers[w].stored # None
       /\ workers[w].stored[1].state = calls[2].state
       /\ workers[w].notes = << StateMismatchNote >>

\* C4 (as claimed): once a worker that read a request line has ended (in
\* whichever way: success, exchange failure, provider error, state mismatch,
\* invalid request), a worker
\* that looks into the store before any further start_oauth_server step
\* finds no pending request.
C4_AfterCompletionNoPending ==
  [][ \A w \in DOMAIN workers :
        ( /\ settled
          /\ workers[w].pc = "snapshot"
          /\ workers'[w].pc # "snapshot" )
        => workers'[w].branch = "nopending" ]_vars

\* C5 (as claimed): a worker that has accepted a connection and ended
\* has emitted exactly one notification.
C5_ExactlyOneNotification ==
  \A w \in DOMAIN workers :
    (workers[w].pc = "done" /\ Accepted(workers[w])) => Len(workers[w].notes) = 1

\* C5 (amended): a worker emits at most one notification, oauth-token or
\* oauth-error; when it has ended it has emitted exactly one if it found no
\* pending request, a mismatching state, a code or an error parameter, and
\* none otherwise (unreadable request, a path that is no callback, a
\* matching callback with neither code nor error).
C5_AtMostOneNotification ==
  \A w \in DOMAIN workers :
    /\ Len(workers[w].notes) <= 1
    /\ \A i \in DOMAIN workers[w].notes :
         workers[w].notes[i].event \in { "oauth-token", "oauth-error" }
    /\ workers[w].pc = "done" =>
         ( Len(workers[w].notes) = 1 <=>
             workers[w].branch \in { "nopending", "mismatch", "code", "error" } )

C5_Witness ==
  \E w, v \in DOMAIN workers :
    /\ workers[w].pc = "done"
    /\ workers[w].branch = "error"
    /\ Len(workers[w].notes) = 1
    /\ workers[v].pc = "done"
    /\ workers[v].branch = "invalid"
    /\ workers[v].notes = << >>

\* C6 (as claimed): a worker that accepted a connection and ended has set
\* the store to None exactly once.
C6_ClearExactlyOnce ==
  \A w \in DOMAIN workers :
    (workers[w].pc = "done" /\ Accepted(workers[w])) => workers[w].clears = 1

\* the endpoint answered the worker's exchange with a status outside 2xx
Refused(wk) ==
  /\ wk.answer # None
  /\ wk.answer[1].sent
  /\ ~ (wk.answer[1].status >= 200 /\ wk.answer[1].status <= 299)

\* C7: when the endpoint answers the exchange with a status outside 2xx,
\* exchange_code_for_tokens returns the error "Token exchange failed: "
\* followed by the status alone (the body is not in it), the worker emits
\* exactly one oauth-error with that message and no oauth-token, and writes
\* the failure page with it, never the success page.
C7_RefusedExchange ==
  \A w \in DOMAIN workers :
    Refused(workers[w]) =>
      LET msg == << "Token exchange failed: ",
                    IF workers[w].answer[1].status = 400
                      THEN "400 Bad Request" ELSE "other status" >> IN
        /\ workers[w].result = Some([ ok |-> FALSE, tokens |-> None, err |-> msg ])
        /\ \A i \in DOMAIN workers[w].result[1].err :
             workers[w].result[1].err[i] # workers[w].answer[1].body.raw
        /\ workers[w].notes =
             IF HasEmitted(workers[w])
               THEN << [ event |-> "oauth-error", message |-> msg, payload |-> None ] >>
               ELSE << >>
        /\ workers[w].pages =
             IF workers[w].pc \in { "clear", "done" }
               THEN << [ status |-> "400 Bad Request", error |-> msg ] >>
               ELSE << >>

C7_Witness ==
  \E w \in DOMAIN workers :
    /\ Refused(workers[w])
    /\ workers[w].answer[1].body.json
    /\ workers[w].pc = "done"
    /\ Len(workers[w].notes) = 1
    /\ Len(workers[w].pages) = 1

\* C8: an invocation whose bind fails returns the bind error and leaves no
\* worker behind, so nothing is ever emitted, posted or written for it; an
\* invocation whose bind succeeds returns success in the step that spawns
\* the worker, which has accepted no connection yet.
C8_BindFailureSpawnsNothing ==
  /\ [] (\A c \in DOMAIN calls :
           /\ calls[c].result = "bindError" =>
                /\ calls[c].pc = "returned"
                /\ workers[c].pc = "none"
                /\ workers[c].notes = << >>
                /\ workers[c].exch = << >>
                /\ workers[c].pages = << >>
                /\ workers[c].clears = 0
           /\ calls[c].result = "ok" => workers[c].pc # "none"
           /\ calls[c].result = "none" => workers[c].pc = "none")
  /\ [][ \A c \in DOMAIN calls :
           (calls[c].result = "none" /\ calls'[c].result = "ok")
             => (calls'[c].pc = "returned" /\ workers'[c].pc = "accept") ]_vars

C8_Witness ==
  \E c, d \in DOMAIN calls :
    /\ calls[c].result = "ok"
    /\ workers[c].pc = "accept"
    /\ calls[d].result = "bindError"
    /\ calls[d].port = calls[c].port
    /\ workers[d].pc = "none"

\* the form has a field of this name
HasField(form, name) == \E i \in DOMAIN form : form[i][1] = name

FieldNames(form) == { form[i][1] : i \in DOMAIN form }

\* C9: the form posted to the token endpoint has a client_secret field
\* exactly when the supplied secret is not empty, and then with that secret
\* as its value, for refresh_oauth_token (fields refresh_token, client_id,
\* grant_type = refresh_token) and for exchange_code_for_tokens (fields
\* code, client_id, code_verifier, redirect_uri, grant_type =
\* authorization_code).
C9_SecretFieldIffNonEmpty ==
  /\ \A r \in DOMAIN refreshes :
       LET form == refreshes[r].form
           secret == refreshes[r].client_secret IN
         /\ HasField(form, "client_secret") <=> secret # ""
         /\ FieldNames(form) \ { "client_secret" } =
              { "refresh_token", "client_id", "grant_type" }
         /\ \A i \in DOMAIN form :
              /\ form[i][1] = "client_secret" => form[i][2] = secret
              /\ form[i][1] = "grant_type" => form[i][2] = "refresh_token"
  /\ \A w \in DOMAIN workers :
       \A k \in DOMAIN workers[w].exch :
         LET form == workers[w].exch[k]
             secret == workers[w].stored[1].client_secret IN
           /\ HasField(form, "client_secret") <=> secret # ""
           /\ FieldNames(form) \ { "client_secret" } =
                { "code", "client_id", "code_verifier", "redirect_uri", "grant_type" }
           /\ \A i \in DOMAIN form :
                /\ form[i][1] = "client_secret" => form[i][2] = secret
                /\ form[i][1] = "grant_type" => form[i][2] = "authorization_code"

C9_Witness ==
  /\ \E r \in DOMAIN refreshes :
       /\ refreshes[r].client_secret = ""
       /\ ~ HasField(refreshes[r].form, "client_secret")
  /\ \E w \in DOMAIN workers :
       /\ workers[w].exch # << >>
       /\ workers[w].stored[1].client_secret # ""
       /\ HasField(workers[w].exch[1], "client_secret")

\* C10: a step of refresh_oauth_token leaves the store, the invocations of
\* start_oauth_server and the workers with their notifications as they are;
\* what it returns is the access token and expiry of the endpoint's answer,
\* or an error value.
C10_RefreshLeavesStoreAlone ==
  /\ [][ refreshes' # refreshes =>
           (store' = store /\ workers' = workers /\ calls' = calls) ]_vars
  /\ [] (\A r \in DOMAIN refreshes :
           refreshes[r].pc = "returned" =>
             LET answer == refreshes[r].answer[1]
                 result == refreshes[r].result[1] IN
               IF answer.sent /\ answer.status = 200 /\ answer.body.json
                 THEN /\ result.ok
                      /\ result.value =
                           Some([ access_token |-> answer.body.access_token,
                                  expires_in |-> answer.body.expires_in ])
                 ELSE /\ ~ result.ok
                      /\ result.value = None
                      /\ result.err # << >>)

C10_Witness ==
  /\ store # None
  /\ \E r \in DOMAIN refreshes : refreshes[r].pc = "returned" /\ refreshes[r].result[1].ok
  /\ \E w \in DOMAIN workers : workers[w].pc = "await"

\* the worker's callback matches the request it found stored
Matching(wk) ==
  /\ wk.stored # None
  /\ Get(wk.params, "state") = Some(wk.stored[1].state)

\* C11 (as claimed): a worker whose callback matches the stored request and
\* carries an error parameter posts nothing to the token endpoint and
\* emits that error value as its one oauth-error, also when the query
\* carries a code as well.
C11_ErrorBeforeCode ==
  \A w \in DOMAIN workers :
    (Matching(workers[w]) /\ Get(workers[w].params, "error") # None) =>
      /\ workers[w].exch = << >>
      /\ HasEmitted(workers[w]) =>
           workers[w].notes = << OAuthError(Get(workers[w].params, "error")[1]) >>

InvalidRequestPage == [ status |-> "400 Bad Request", error |-> << "Invalid request" >> ]

\* C12 (as claimed): no step of a worker whose request is no callback
\* changes the store.
C12_InvalidRequestKeepsStore ==
  [][ \A w \in DOMAIN workers :
        (workers[w].branch = "invalid" /\ workers'[w] # workers[w])
          => store' = store ]_vars

\* C12 (amended): a worker whose request path does not start with
\* "/callback?" writes the "Invalid request" failure page, emits nothing,
\* posts nothing to the token endpoint and never looks into the store, but
\* it clears the store once before it ends: its last step leaves the store
\* empty, whatever was stored before.
C12_InvalidRequestClearsStore ==
  /\ [] (\A w \in DOMAIN workers :
           workers[w].branch = "invalid" =>
             /\ workers[w].notes = << >>
             /\ workers[w].exch = << >>
             /\ workers[w].stored = None
             /\ workers[w].pc \in { "respond", "clear", "done" }
             /\ workers[w].pages =
                  IF workers[w].pc = "respond" THEN << >> ELSE << InvalidRequestPage >>
             /\ workers[w].clears = IF workers[w].pc = "done" THEN 1 ELSE 0)
  /\ [][ \A w \in DOMAIN workers :
           ( /\ workers[w].branch = "invalid"
             /\ workers[w].pc # "done"
             /\ workers'[w].pc = "done" ) => store' = None ]_vars

C12_Witness ==
  /\ store = None
  /\ \E w \in DOMAIN workers :
       /\ workers[w].branch = "invalid"
       /\ workers[w].pc = "done"
       /\ workers[w].pages = << InvalidRequestPage >>
       /\ workers[w].clears = 1
       /\ calls[w].result = "ok"

\* C13: within one worker the effects come in one order: a form is posted
\* only after the state was found to match, a notification that follows an
\* exchange only after the exchange has returned, a page (other than the
\* invalid-request page, which has no notification) only after the
\* notification, and the store is cleared only as the last step, after
\* the notification and the page of the branch.
C13_WorkerStepsOrdered ==
  \A w \in DOMAIN workers :
    LET wk == workers[w] IN
      /\ wk.exch # << >> => Matching(wk)
      /\ wk.result # None => wk.exch # << >>
      /\ (wk.notes # << >> /\ wk.exch # << >>) => wk.result # None
      /\ (wk.pages # << >> /\ wk.branch # "invalid") => wk.notes # << >>
      /\ wk.clears > 0 =>
           /\ wk.pc = "done"
           /\ wk.branch \in { "nopending", "code", "error" } =>
                (wk.notes # << >> /\ wk.pages # << >>)
           /\ wk.branch = "invalid" => wk.pages # << >>
      /\ wk.pc \in { "exchange", "await" } => (wk.notes = << >> /\ wk.pages = << >>)
      /\ wk.pc = "emit" => (wk.notes = << >> /\ wk.pages = << >>)
      /\ wk.pc = "respond" => (wk.pages = << >> /\ wk.clears = 0)

C13_Witness ==
  \E w \in DOMAIN workers :
    /\ workers[w].pc = "done"
    /\ workers[w].branch = "code"
    /\ Len(workers[w].exch) = 1
    /\ Len(workers[w].notes) = 1
    /\ Len(workers[w].pages) = 1
    /\ workers[w].clears = 1

\* C14 (as claimed): no two workers hold a snapshot of the same pending
\* request.  (Requests are told apart by their state value: the statement
\* is made of the behaviours in which every invocation passed another
\* state.)
C14_OneReaderPerRequest ==
  (\A i, j \in DOMAIN calls : i # j => calls[i].state # calls[j].state) =>
    \A w, v \in DOMAIN workers :
      (w # v /\ workers[w].stored # None) => workers[w].stored # workers[v].stored

\* C16: a worker that is blocked on accept has emitted nothing, written
\* nothing, cleared nothing and holds its port; it leaves accept by no step
\* other than the return of accept itself, so it waits for as long as no
\* connection arrives; and every start_oauth_server that binds the port of a
\* worker waiting on accept returns the bind error and spawns no thread.
C16_WaitingWorkerHoldsPort ==
  /\ [] (\A w \in DOMAIN workers :
           workers[w].pc = "accept" =>
             /\ workers[w].notes = << >>
             /\ workers[w].pages = << >>
             /\ workers[w].exch = << >>
             /\ workers[w].clears = 0
             /\ workers[w].port \in BoundPorts)
  /\ [][ \A w \in DOMAIN workers :
           workers[w].pc = "accept" =>
             /\ workers'[w] # workers[w] => \E ok \in BOOLEAN : Accept(w, ok)
             /\ \A c \in DOMAIN calls :
                  ( /\ calls[c].port = workers[w].port
                    /\ calls[c].pc = "bind"
                    /\ calls'[c].pc = "returned" ) =>
                      /\ calls'[c].result = "bindError"
                      /\ workers'[c].pc = "none"
                      /\ workers'[w].pc = "accept" ]_vars

C16_Witness ==
  /\ Len(calls) = 2
  /\ calls[1].result = "ok"
  /\ workers[1].pc = "accept"
  /\ calls[2].port = calls[1].port
  /\ calls[2].result = "bindError"
  /\ workers[2].pc = "none"
  /\ store # None

\* the request an invocation stores
RequestOf(call) == OAuthState(call.state, ClientOf(call.state))

\* the value of a field of a posted form
FieldOf(form, name) == form[CHOOSE i \in DOMAIN form : form[i][1] = name][2]

\* C18: start_oauth_server stores its request before it binds and no bind,
\* failed or not, changes the store: the step that stores leaves the store
\* holding the new request with the bind still ahead, the step that binds
\* leaves the store as it was, and a store that is not empty holds the
\* request of the latest invocation, also when that invocation failed to
\* bind.
C18_StoredBeforeBindNoRollback ==
  /\ [] (store # None => (calls # << >> /\ store = Some(RequestOf(calls[Len(calls)]))))
  /\ [][ Len(calls') = Len(calls) + 1 =>
           /\ store' = Some(RequestOf(calls'[Len(calls')]))
           /\ calls'[Len(calls')].pc = "bind" ]_vars
  /\ [][ \A c \in DOMAIN calls :
           (calls[c].pc = "bind" /\ calls'[c].pc = "returned") => store' = store ]_vars

\* a worker of an earlier flow exchanges with the verifier and credentials
\* of the invocation that failed to bind
C18_Witness ==
  /\ Len(calls) = 2
  /\ calls[1].state # calls[2].state
  /\ calls[1].result = "ok"
  /\ calls[2].port = calls[1].port
  /\ calls[2].result = "bindError"
  /\ workers[1].stored = Some(RequestOf(calls[2]))
  /\ Get(workers[1].params, "state") = Some(calls[2].state)
  /\ Len(workers[1].exch) = 1
  /\ FieldOf(workers[1].exch[1], "code_verifier") = RequestOf(calls[2]).code_verifier
  /\ FieldOf(workers[1].exch[1], "client_id") = RequestOf(calls[2]).client_id

\* C19: a worker takes the request the store holds when it handles its
\* callback, whichever invocation wrote it: its snapshot is the content of
\* the store at that step, the form it posts carries the verifier and the
\* credentials of the snapshot, and its Clear leaves the store empty
\* whatever the store held.
C19_WorkerUsesCurrentStore ==
  /\ [] (\A w \in DOMAIN workers :
           workers[w].exch # << >> =>
             /\ workers[w].stored # None
             /\ workers[w].exch =
                  << ExchangeForm(Get(workers[w].params, "code")[1],
                                  workers[w].stored[1].code_verifier,
                                  workers[w].stored[1].client_id,
                                  workers[w].stored[1].client_secret,
                                  workers[w].stored[1].redirect_uri) >>)
  /\ [][ \A w \in DOMAIN workers :
           (workers[w].pc = "snapshot" /\ workers'[w].pc # "snapshot")
             => workers'[w].stored = store ]_vars
  /\ [][ \A w \in DOMAIN workers :
           workers'[w].clears = workers[w].clears + 1 => store' = None ]_vars

\* two live flows on different ports: the older worker exchanges with the
\* newer flow's verifier and clears, and the newer flow's own callback ends
\* in "No pending OAuth request"
C19_Witness ==
  /\ Len(calls) = 2
  /\ calls[1].port # calls[2].port
  /\ calls[1].state # calls[2].state
  /\ calls[1].result = "ok"
  /\ calls[2].result = "ok"
  /\ Get(workers[1].params, "state") = Some(calls[2].state)
  /\ Len(workers[1].exch) = 1
  /\ FieldOf(workers[1].exch[1], "code_verifier") = RequestOf(calls[2]).code_verifier
  /\ workers[1].clears = 1
  /\ Get(workers[2].params, "state") = Some(calls[2].state)
  /\ Get(workers[2].params, "code") # None
  /\ workers[2].notes = << NoPendingNote >>
  /\ workers[2].exch = << >>

\* C20: a worker emits at most one notification and writes at most one
\* response; the success page is written only after oauth-token, and once
\* the response of a worker that notified is written, it is the success
\* page after oauth-token and the failure page with the notification's
\* message after oauth-error.
C20_NotificationAndPageAgree ==
  \A w \in DOMAIN workers :
    LET wk == workers[w] IN
      /\ Len(wk.notes) <= 1
      /\ Len(wk.pages) <= 1
      /\ (wk.pages # << >> /\ wk.pages[1].status = "200 OK") =>
           (wk.notes # << >> /\ wk.notes[1].event = "oauth-token")
      /\ (wk.notes # << >> /\ wk.pc \in { "clear", "done" }) =>
           /\ Len(wk.pages) = 1
           /\ wk.notes[1].event = "oauth-token" => wk.pages[1] = SuccessPage
           /\ wk.notes[1].event = "oauth-error" =>
                wk.pages[1] = ErrorPage(wk.notes[1].message)

C20_Witness ==
  \E w, v \in DOMAIN workers :
    /\ workers[w].pc = "done"
    /\ workers[w].notes # << >>
    /\ workers[w].notes[1].event = "oauth-token"
    /\ workers[w].pages = << SuccessPage >>
    /\ workers[v].pc = "done"
    /\ workers[v].notes = << OAuthError(<< "access_denied" >>) >>
    /\ workers[v].pages = << ErrorPage(<< "access_denied" >>) >>

\* where a thread that holds the mutex stands
InStoreBlock(thread) ==
  \/ thread = CallThread(Len(calls) + 1)
  \/ \E w \in DOMAIN workers :
       thread = WorkerThread(w) /\ workers[w].pc \in { "snapshot", "clear" }

\* C15: the mutex is held only inside the three blocks that store, copy
\* and clear: the holder is an invocation that has not yet stored its
\* request or a worker about to copy or to clear.  No invocation that is
\* binding holds it, and no worker that is blocked on accept or read, has
\* a request at the token endpoint, is emitting, is writing its response
\* or has ended; so the holder's next step is the one that releases.
C15_LockOnlyAroundStore ==
  /\ lock # None => InStoreBlock(lock[1])
  /\ \A c \in DOMAIN calls : lock # Some(CallThread(c))
  /\ \A w \in DOMAIN workers :
       workers[w].pc \in { "none", "accept", "read", "exchange", "await",
                           "emit", "respond", "done" }
         => lock # Some(WorkerThread(w))

\* a worker has its request at the token endpoint while another holds the
\* mutex for its snapshot
C15_Witness ==
  \E w, v \in DOMAIN workers :
    /\ workers[w].pc = "await"
    /\ workers[v].pc = "snapshot"
    /\ lock = Some(WorkerThread(v))

\* positions at which an entry of the query starts: the first token and
\* every token after a '&'
EntryStarts(q) == { i \in 1..(Len(q) + 1) : i = 1 \/ q[i - 1] = "&" }

\* the position after the entry that starts at i
EntryEnd(q, i) ==
  CHOOSE j \in i..(Len(q) + 1) :
    /\ j = Len(q) + 1 \/ q[j] = "&"
    /\ \A k \in i..(j - 1) : q[k] # "&"

\* starts of the entries that read key '=' ...
KeyEntries(q, key) ==
  { i \in EntryStarts(q) : i + 1 <= Len(q) /\ q[i] = key /\ q[i + 1] = "=" }

\* the value the query gives to key: everything after the first '=' of the
\* last entry "key=..." up to the next '&', further '=' included and
\* nothing decoded; none when no entry reads "key=..."
ValueInQuery(q, key) ==
  IF KeyEntries(q, key) = { } THEN None
  ELSE LET i == CHOOSE m \in KeyEntries(q, key) : \A n \in KeyEntries(q, key) : n <= m
       IN Some(SubSeq(q, i + 2, EntryEnd(q, i) - 1))

\* C17: the parameters code and state the worker finds are those of the
\* entries between '&' that read "code=..." and "state=...": an entry without
\* '=' gives no parameter, an entry that ends at its '=' gives the empty
\* value, a value keeps every further '=', and the state value is compared
\* as it stands, so that "S%31" does not match the stored "S1".
C17_QueryParsedByEntries ==
  /\ parse.pc \in { "params", "done" } =>
       \A key \in { "code", "state" } :
         Get(parse.params, key) = ValueInQuery(parse.query, key)
  /\ parse.pc = "done" =>
       parse.branch =
         IF ValueInQuery(parse.query, "state") # Some(<< "S1" >>) THEN "mismatch"
         ELSE IF ValueInQuery(parse.query, "code") # None THEN "code"
         ELSE "nothing"

\* "code&state=S%31": no code, the state undecoded, a mismatch
C17_Witness ==
  /\ parse.pc = "done"
  /\ parse.query = << "code", "&", "state", "=", "S%31" >>
  /\ Get(parse.params, "code") = None
  /\ Get(parse.params, "state") = Some(<< "S%31" >>)
  /\ parse.branch = "mismatch"

====
